---------------------------- MODULE Spec2Model ----------------------------
(***************************************************************************)
(* Model of arkham-localize: the ingestion CLI (backend/cmd/ingest) that   *)
(* reconciles canonical card files with per-language translation files,    *)
(* embeds the English texts batch by batch and inserts rows into the       *)
(* card_embeddings table, and the retrieval service                        *)
(* (rag.RetrieveSimilarCards) that queries that table.                     *)
(*                                                                         *)
(* Texts are sequences of one-character strings, so that strings.TrimSpace *)
(* is computed and not assumed.  A nullable TEXT column is a record        *)
(* [valid, str] (the shape of sql.NullString); an embedding is a sequence  *)
(* of integers (a point on a line standing for a point of R^1536).         *)
(***************************************************************************)
EXTENDS Integers, Sequences, FiniteSets, TLC

\* ------------------------------------------------------------------ bounds
\* Largest LIMIT a retrieval asks for.
MaxK == 2
\* Largest value of the -batch-size flag.
MaxBatchSize == 2
\* Largest value of the -limit flag (0 = all).
MaxLimit == 1

\* ------------------------------------------------------------------ strings
\* The empty Go string.
Empty == <<>>

RECURSIVE TrimLeft(_)
TrimLeft(s) ==
    IF s = <<>> THEN s
    ELSE IF Head(s) = " " THEN TrimLeft(Tail(s)) ELSE s

RECURSIVE TrimRight(_)
TrimRight(s) ==
    IF s = <<>> THEN s
    ELSE IF s[Len(s)] = " " THEN TrimRight(SubSeq(s, 1, Len(s) - 1)) ELSE s

\* strings.TrimSpace
TrimSpace(s) == TrimRight(TrimLeft(s))

\* ------------------------------------------------------------------ cards
\* var supportedLanguages = []string{"it", "fr", "de", "es"}
supportedLanguages == <<"it", "fr", "de", "es">>

Langs == {supportedLanguages[i] : i \in 1..Len(supportedLanguages)}

\* type Card struct { Code, Name, Text, RealText, BackText }
Card(code, name, text, realText, backText) ==
    [Code |-> code, Name |-> name, Text |-> text, RealText |-> realText,
     BackText |-> backText]

extractCardText(card, isBack) ==
    IF isBack THEN TrimSpace(card.BackText)
    ELSE IF card.Text # Empty THEN TrimSpace(card.Text)
    ELSE TrimSpace(card.RealText)

\* A Go map read m[k]: the zero value when the key is absent.
MapGet(m, k) == IF k \in DOMAIN m THEN m[k] ELSE Empty

\* m[k] = v on a Go map.
MapPut(m, k, v) == [x \in DOMAIN m \cup {k} |-> IF x = k THEN v ELSE m[x]]

EmptyMap == [x \in {} |-> Empty]

\* The body of the loop over the cards of one translation file
\* (loadTranslations): the card's fields overwrite what an earlier card of
\* the same code left in the dictionary.
LoadCard(translations, card) ==
    IF card.Code = "" THEN translations
    ELSE LET t0 == IF card.Code \in DOMAIN translations
                   THEN translations[card.Code] ELSE EmptyMap
             t1 == IF card.Name # "" THEN MapPut(t0, "name", card.Name) ELSE t0
             text == extractCardText(card, FALSE)
             t2 == IF text # Empty THEN MapPut(t1, "text", text) ELSE t1
             backText == extractCardText(card, TRUE)
             t3 == IF backText # Empty THEN MapPut(t2, "back_text", backText)
                   ELSE t2
         IN  MapPut(translations, card.Code, t3)

RECURSIVE LoadCards(_, _)
LoadCards(translations, cards) ==
    IF cards = <<>> THEN translations
    ELSE LoadCards(LoadCard(translations, Head(cards)), Tail(cards))

\* One JSON file: unreadable or unparsable files are skipped.
RECURSIVE LoadFiles(_, _)
LoadFiles(translations, files) ==
    IF files = <<>> THEN translations
    ELSE LET f == Head(files)
         IN  LoadFiles(IF f.ok THEN LoadCards(translations, f.cards)
                       ELSE translations, Tail(files))

\* One entry of the pack glob: entries that are not directories are skipped.
RECURSIVE LoadPacks(_, _)
LoadPacks(translations, packDirs) ==
    IF packDirs = <<>> THEN translations
    ELSE LET p == Head(packDirs)
         IN  LoadPacks(IF p.isDir THEN LoadFiles(translations, p.files)
                       ELSE translations, Tail(packDirs))

\* loadTranslations(dataPath, language): dir is translations/<language>/pack.
loadTranslations(dir) ==
    IF ~dir.exists THEN EmptyMap ELSE LoadPacks(EmptyMap, dir.packs)

\* findTranslation reading the front text for either side.
findTranslationFront(code, translations, isBack) ==
    IF code \notin DOMAIN translations THEN [text |-> Empty, found |-> FALSE]
    ELSE LET cardTrans == translations[code]
         IN  IF "text" \notin DOMAIN cardTrans
             THEN [text |-> Empty, found |-> FALSE]
             ELSE [text |-> cardTrans["text"], found |-> TRUE]

\* findTranslation(code, name, translations, isBack) -> [text, found]
findTranslation(code, translations, isBack) ==
    IF code \notin DOMAIN translations THEN [text |-> Empty, found |-> FALSE]
    ELSE LET cardTrans == translations[code]
             key == IF isBack THEN "back_text" ELSE "text"
         IN  IF key \notin DOMAIN cardTrans
             THEN [text |-> Empty, found |-> FALSE]
             ELSE [text |-> cardTrans[key], found |-> TRUE]

\* ------------------------------------------------------------------ reconcile
\* The inner loop over supportedLanguages of processCardFiles: the map of the
\* languages whose dictionary has a text for this code and side.
CollectTranslations(card, allTranslations, isBack) ==
    LET found == {lang \in Langs :
                    /\ lang \in DOMAIN allTranslations
                    /\ findTranslation(card.Code, allTranslations[lang], isBack).found}
    IN  [lang \in found |->
            findTranslation(card.Code, allTranslations[lang], isBack).text]

\* type CardEntry as processCardFiles builds it.
CardEntry(card, isBack, englishText, translationsMap) ==
    [CardCode |-> card.Code, CardName |-> card.Name, IsBack |-> isBack,
     EnglishText |-> englishText, Translations |-> translationsMap]

\* ProcessSide without the hasAnyTranslation test.
ProcessSideUngrounded(card, allTranslations, isBack) ==
    LET englishText == extractCardText(card, isBack)
    IN  IF englishText # Empty
        THEN <<CardEntry(card, isBack, englishText,
                         CollectTranslations(card, allTranslations, isBack))>>
        ELSE <<>>

\* The entries one side of one card appends (none or one).
ProcessSide(card, allTranslations, isBack) ==
    LET englishText == extractCardText(card, isBack)
        translationsMap == CollectTranslations(card, allTranslations, isBack)
        hasAnyTranslation == DOMAIN translationsMap # {}
    IN  IF englishText # Empty /\ hasAnyTranslation
        THEN <<CardEntry(card, isBack, englishText, translationsMap)>>
        ELSE <<>>

\* The body of the loop over the cards of one canonical file.
ProcessCard(card, allTranslations) ==
    IF card.Code = "" THEN <<>>
    ELSE ProcessSide(card, allTranslations, FALSE)
            \o ProcessSide(card, allTranslations, TRUE)

RECURSIVE ProcessCards(_, _)
ProcessCards(cards, allTranslations) ==
    IF cards = <<>> THEN <<>>
    ELSE ProcessCard(Head(cards), allTranslations)
            \o ProcessCards(Tail(cards), allTranslations)

\* ProcessFiles giving up at the first file that cannot be read or parsed.
RECURSIVE ProcessFilesStopping(_, _)
ProcessFilesStopping(files, allTranslations) ==
    IF files = <<>> \/ ~Head(files).ok THEN <<>>
    ELSE ProcessCards(Head(files).cards, allTranslations)
            \o ProcessFilesStopping(Tail(files), allTranslations)

RECURSIVE ProcessFiles(_, _)
ProcessFiles(files, allTranslations) ==
    IF files = <<>> THEN <<>>
    ELSE (IF Head(files).ok
          THEN ProcessCards(Head(files).cards, allTranslations) ELSE <<>>)
            \o ProcessFiles(Tail(files), allTranslations)

\* processCardFiles(dataPath, allTranslations): packDirs is the glob of pack/*.
RECURSIVE processCardFiles(_, _)
processCardFiles(packDirs, allTranslations) ==
    IF packDirs = <<>> THEN <<>>
    ELSE (IF Head(packDirs).isDir
          THEN ProcessFiles(Head(packDirs).files, allTranslations) ELSE <<>>)
            \o processCardFiles(Tail(packDirs), allTranslations)

\* The loading step of main: one dictionary per supported language.
LoadAllTranslations(trans) ==
    [lang \in Langs |-> loadTranslations(trans[lang])]

\* The -limit flag: entries[:limit] when 0 < limit < len(entries).
LimitEntries(es, limit) ==
    IF limit > 0 /\ limit < Len(es) THEN SubSeq(es, 1, limit) ELSE es

\* ------------------------------------------------------------------ store
\* A Go string bound to a TEXT parameter: the driver sends it as a non-NULL
\* value, the empty string included.
GoString(s) == [valid |-> TRUE, str |-> s]

\* The embedding the provider computes for a text (a pure function of the
\* text for a fixed model).
ModelVector(text) == <<Len(text)>>

\* The row ingestCards appends to batchData for a result whose err is nil.
BatchRow(result) ==
    [card_code |-> result.entry.CardCode,
     card_name |-> result.entry.CardName,
     is_back |-> result.entry.IsBack,
     english_text |-> result.entry.EnglishText,
     it_text |-> GoString(MapGet(result.entry.Translations, "it")),
     fr_text |-> GoString(MapGet(result.entry.Translations, "fr")),
     de_text |-> GoString(MapGet(result.entry.Translations, "de")),
     es_text |-> GoString(MapGet(result.entry.Translations, "es")),
     embedding |-> [valid |-> TRUE, vec |-> result.embedding]]

\* BatchData giving up the whole batch when one of its results failed.
BatchDataAborting(rs) ==
    IF \E j \in 1..Len(rs) : rs[j].err THEN <<>>
    ELSE [j \in 1..Len(rs) |->
            [card_code |-> rs[j].entry.CardCode,
             card_name |-> rs[j].entry.CardName,
             is_back |-> rs[j].entry.IsBack,
             english_text |-> rs[j].entry.EnglishText,
             it_text |-> GoString(MapGet(rs[j].entry.Translations, "it")),
             fr_text |-> GoString(MapGet(rs[j].entry.Translations, "fr")),
             de_text |-> GoString(MapGet(rs[j].entry.Translations, "de")),
             es_text |-> GoString(MapGet(rs[j].entry.Translations, "es")),
             embedding |-> [valid |-> TRUE, vec |-> rs[j].embedding]]]

\* The loop of ingestCards over results: the failed ones are skipped.
RECURSIVE BatchData(_)
BatchData(rs) ==
    IF rs = <<>> THEN <<>>
    ELSE (IF Head(rs).err THEN <<>> ELSE <<BatchRow(Head(rs))>>)
            \o BatchData(Tail(rs))

\* clearDatabase leaving the rows in place.
clearDatabaseKeeping(rows) == rows

\* The rows of the table after TRUNCATE TABLE card_embeddings.
clearDatabase(rows) == <<>>

\* The rows of the table after insertBatch commits.
\* tx.Exec with the statement executed on the connection instead of in the
\* transaction: the row is in the table at once.
ExecAutocommit(rows, pending, row) ==
    [table |-> Append(rows, row), tx |-> Append(pending, row)]

\* tx.Exec of one row: the row is executed in the transaction; the table that
\* other connections read does not have it yet.
Exec(rows, pending, row) == [table |-> rows, tx |-> Append(pending, row)]

\* The deferred tx.Rollback() of a transaction that was not committed: the
\* executed rows are discarded.
Rollback(pending) == <<>>

insertBatch(rows, batchData) == rows \o batchData

\* ------------------------------------------------------------------ inputs
File(cards) == [ok |-> TRUE, cards |-> cards]

\* A JSON file that cannot be read or parsed.
BadFile == [ok |-> FALSE, cards |-> <<>>]

PackDir(files) == [isDir |-> TRUE, files |-> files]

\* An entry of the pack glob that is not a directory.
NotADir == [isDir |-> FALSE, files |-> <<>>]

TransDir(packs) == [exists |-> TRUE, packs |-> packs]

\* translations/<lang>/pack does not exist.
NoTransDir == [exists |-> FALSE, packs |-> <<>>]

\* Canonical cards.
CardA == Card("A", "Alpha", <<"a">>, Empty, <<" ", "b", "b">>)
CardB == Card("B", "Beta", <<"c", "c", "c">>, Empty, Empty)
CardA2 == Card("A", "Alpha bis", <<"d", "d">>, Empty, Empty)
CardW == Card("W", "Blank", <<" ">>, <<"r">>, Empty)
CardR == Card("R", "Real", Empty, <<"r", " ">>, Empty)
CardE == Card("", "No code", <<"e">>, Empty, Empty)

\* Translated cards.
TrA == Card("A", "Alfa", <<"x">>, Empty, <<"y", " ">>)
TrA2 == Card("A", "", <<"z">>, Empty, Empty)
TrB == Card("B", "Beta", <<"u">>, Empty, Empty)
TrBlank == Card("B", "Beta", <<" ">>, <<"v">>, <<" ">>)
TrR == Card("R", "Reale", Empty, <<"w">>, Empty)

\* The canonical pack trees of the model, in the order the glob lists them.
CanonTrees ==
    { <<PackDir(<<File(<<CardA, CardB>>)>>)>>,
      <<PackDir(<<File(<<CardA, CardB>>)>>), PackDir(<<File(<<CardA2>>)>>)>>,
      <<NotADir, PackDir(<<BadFile, File(<<CardE, CardW, CardR>>)>>)>> }

\* The translation trees of each language that the runs of the CLI are
\* started on.
ItTrees ==
    { NoTransDir, TransDir(<<PackDir(<<File(<<TrA>>)>>)>>) }

FrTrees ==
    { TransDir(<<PackDir(<<File(<<TrB>>)>>)>>),
      TransDir(<<NotADir, PackDir(<<BadFile, File(<<TrBlank, TrR>>)>>)>>) }

DeTrees ==
    { NoTransDir, TransDir(<<PackDir(<<File(<<TrA>>), File(<<TrA2, TrB>>)>>)>>) }

EsTrees == { NoTransDir }

FileSystems ==
    { [pack |-> c, trans |-> [lang \in Langs |->
            CASE lang = "it" -> ti [] lang = "fr" -> tf
              [] lang = "de" -> td [] OTHER -> te]] :
        c \in CanonTrees, ti \in ItTrees, tf \in FrTrees,
        td \in DeTrees, te \in EsTrees }

\* ------------------------------------------------------------------ state
VARIABLES
    fs,              \* the data directory: canonical and translation trees
    limitEntries,    \* the -limit flag
    batchSize,       \* the -batch-size flag
    clearDB,         \* the -clear flag of the current run
    run,             \* how many runs of the CLI have started
    pc,              \* where main is
    exit,            \* exit status of the last run (-1 while it runs)
    fatal,           \* the message of log.Fatal, "" if none
    allTranslations, \* main: language -> TranslationDict
    entries,         \* main: the entries to ingest
    i,               \* ingestCards: start of the current batch
    results,         \* ingestCards: the result slots of the current batch
    table,           \* the committed rows of card_embeddings, in insertion order
    tx,              \* insertBatch: the rows executed in the open transaction
    resp,            \* the last answer of RetrieveSimilarCards, or NoResp
    hpc,             \* translateHandler: the step the request is at
    req,             \* translateHandler: the request r, its method and body
    hQueryEmbedding, \* translateHandler: the result of GetEmbedding
    hContextCards,   \* translateHandler: the result of RetrieveSimilarCards
    calls,           \* history: the calls made for the request, in order
    httpResp,        \* the response written for the last request
    embLog,          \* history: the outcome of each entry's embedding call
    baseTable,       \* history: the table when ingestCards was entered
    prev             \* history: how the previous run ended

vars == <<fs, limitEntries, batchSize, clearDB, run, pc, exit, fatal,
          allTranslations, entries, i, results, table, tx, resp, embLog,
          baseTable, prev, hpc, req, hQueryEmbedding, hContextCards, calls,
          httpResp>>

inputVars == <<fs, limitEntries, batchSize>>
histVars == <<embLog, baseTable, prev>>
serveVars == <<hpc, req, hQueryEmbedding, hContextCards, calls, httpResp>>
ingestVars == <<inputVars, clearDB, run, pc, exit, fatal, allTranslations,
                entries, i, results, table, tx, resp, histVars>>

NoResp == [kind |-> "none"]

\* The model follows a first run of the CLI and a second one on the same
\* database.
Runs == {1, 2}

NoPrev == [run |-> 0]

\* The zero value of a batchItem slot, before its goroutine has written it.
ZeroItem == [done |-> FALSE, err |-> FALSE, embedding |-> <<>>]

\* No request has arrived yet.
NoReq == [method |-> ""]

\* No response has been written.
NoHttpResp == [status |-> 0]

\* The server before its first request.
InitServer ==
    /\ hpc = "idle"
    /\ req = NoReq
    /\ hQueryEmbedding = <<>>
    /\ hContextCards = <<>>
    /\ calls = <<>>
    /\ httpResp = NoHttpResp

Init ==
    /\ InitServer
    /\ fs \in FileSystems
    /\ limitEntries \in 0..MaxLimit
    /\ batchSize \in 1..MaxBatchSize
    /\ clearDB = FALSE
    /\ run = 0
    /\ pc = "idle"
    /\ exit = 0
    /\ fatal = ""
    /\ allTranslations = [lang \in Langs |-> EmptyMap]
    /\ entries = <<>>
    /\ i = 0
    /\ results = <<>>
    /\ table = <<>>
    /\ tx = <<>>
    /\ resp = NoResp
    /\ embLog = <<>>
    /\ baseTable = <<>>
    /\ prev = NoPrev

\* log.Fatal taken for a log line: the process goes on to exit with status 0.
FatalAsWarning(msg) ==
    /\ pc' = "idle"
    /\ exit' = 0
    /\ fatal' = msg

\* log.Fatal: the process exits with status 1.
Fatal(msg) ==
    /\ pc' = "idle"
    /\ exit' = 1
    /\ fatal' = msg

\* No retrieval is in the middle of its query.
Quiet == resp = NoResp

\* The CLI is started (again) on the same data directory, with or without
\* -clear.
StartRun(runs) ==
    /\ Quiet
    /\ pc = "idle"
    /\ run + 1 \in runs
    /\ \E c \in BOOLEAN : clearDB' = c
    /\ run' = run + 1
    /\ pc' = "config"
    /\ exit' = -1
    /\ fatal' = ""
    /\ allTranslations' = [lang \in Langs |-> EmptyMap]
    /\ entries' = <<>>
    /\ i' = 0
    /\ results' = <<>>
    /\ embLog' = <<>>
    /\ baseTable' = <<>>
    /\ prev' = [run |-> run, clearDB |-> clearDB, exit |-> exit,
                table |-> table, embLog |-> embLog]
    /\ UNCHANGED <<serveVars, inputVars, tx, table, resp>>

\* main up to db.Ping: the API key, the data directory, the connection.
Configure ==
    /\ Quiet
    /\ pc = "config"
    /\ \/ /\ pc' = "setup"
          /\ UNCHANGED <<exit, fatal>>
       \/ Fatal("OpenAI API key required")
       \/ Fatal("Data directory not found")
       \/ Fatal("Failed to connect to database")
    /\ UNCHANGED <<serveVars, inputVars, tx, clearDB, run, allTranslations, entries, i,
                   results, table, resp, histVars>>

\* main going on from setupDatabase to the load whatever the -clear flag.
SetupDatabaseNoClear ==
    /\ Quiet
    /\ pc = "setup"
    /\ \/ /\ pc' = "load"
          /\ UNCHANGED <<exit, fatal>>
       \/ Fatal("Failed to setup database")
    /\ UNCHANGED <<serveVars, inputVars, tx, clearDB, run, allTranslations,
                   entries, i, results, table, resp, histVars>>

\* setupDatabase: CREATE ... IF NOT EXISTS leaves the rows alone.
SetupDatabase ==
    /\ Quiet
    /\ pc = "setup"
    /\ \/ /\ pc' = IF clearDB THEN "clear" ELSE "load"
          /\ UNCHANGED <<exit, fatal>>
       \/ Fatal("Failed to setup database")
    /\ UNCHANGED <<serveVars, inputVars, tx, clearDB, run, allTranslations, entries, i,
                   results, table, resp, histVars>>

\* clearDatabase, when -clear is given.
ClearDatabase ==
    /\ Quiet
    /\ pc = "clear"
    /\ \/ /\ table' = clearDatabase(table)
          /\ pc' = "load"
          /\ UNCHANGED <<exit, fatal>>
       \/ /\ Fatal("Failed to clear database")
          /\ UNCHANGED table
    /\ UNCHANGED <<serveVars, inputVars, tx, clearDB, run, allTranslations, entries, i,
                   results, resp, histVars>>

\* main loads the translations of every supported language.
LoadTranslations ==
    /\ Quiet
    /\ pc = "load"
    /\ allTranslations' = LoadAllTranslations(fs.trans)
    /\ pc' = "process"
    /\ UNCHANGED <<serveVars, inputVars, tx, clearDB, run, exit, fatal, entries, i, results,
                   table, resp, histVars>>

\* main calls processCardFiles, stops when nothing was extracted, and applies
\* the -limit flag.
ProcessCardFiles ==
    /\ Quiet
    /\ pc = "process"
    /\ LET es == processCardFiles(fs.pack, allTranslations)
       IN  \/ /\ Len(es) = 0
              /\ Fatal("No cards found to process")
              /\ UNCHANGED <<entries, embLog, baseTable>>
           \/ /\ Len(es) # 0
              /\ entries' = LimitEntries(es, limitEntries)
              /\ embLog' = [n \in 1..Len(entries') |-> "none"]
              /\ baseTable' = table
              /\ pc' = "ingest"
              /\ UNCHANGED <<exit, fatal>>
    /\ i' = 0
    /\ UNCHANGED <<serveVars, inputVars, tx, clearDB, run, allTranslations, results, table,
                   resp, prev>>

\* The loop stepping by one entry instead of by one batch.
NextBatchStartByOne == i + 1

\* i += batchSize: the start of the batch after the one that starts at i.
NextBatchStart == i + batchSize

\* The end index of the batch that starts at i.
BatchEnd == IF i + batchSize > Len(entries) THEN Len(entries) ELSE i + batchSize

\* ingestCards: the head of the loop; one goroutine per entry of the batch.
StartBatch ==
    /\ Quiet
    /\ pc = "ingest"
    /\ i < Len(entries)
    /\ batchSize >= 1
    /\ results' = [j \in 1..(BatchEnd - i) |-> ZeroItem]
    /\ pc' = "embedding"
    /\ UNCHANGED <<serveVars, inputVars, tx, clearDB, run, exit, fatal, allTranslations,
                   entries, i, table, resp, histVars>>

\* The runtime panics of the head of the loop.
DivideByZero == "panic: runtime error: integer divide by zero"

SliceBounds == "panic: runtime error: slice bounds out of range"

\* ingestCards: the head of the loop with a batch size below one. A negative
\* size makes end = i + batchSize less than i and entries[i:end] panics; size
\* zero gives the empty batch entries[i:i] and the progress line's
\* i/batchSize+1 panics. The Go runtime prints the panic and exits with
\* status 2.
BatchPanic ==
    /\ Quiet
    /\ pc = "ingest"
    /\ i < Len(entries)
    /\ batchSize < 1
    /\ pc' = "idle"
    /\ exit' = 2
    /\ fatal' = IF batchSize = 0 THEN DivideByZero ELSE SliceBounds
    /\ UNCHANGED <<serveVars, inputVars, tx, clearDB, run, allTranslations,
                   entries, i, results, table, resp, histVars>>

\* The goroutine of slot j reading the loop's entry variable when it runs,
\* after the loop has moved on to the last entry of the batch.
EmbedReturnShared(j) ==
    /\ Quiet
    /\ pc = "embedding"
    /\ ~results[j].done
    /\ \E failed \in BOOLEAN :
        /\ results' = [results EXCEPT ![j] =
                [done |-> TRUE, err |-> failed,
                 embedding |-> IF failed THEN <<>>
                               ELSE ModelVector(entries[BatchEnd].EnglishText)]]
        /\ embLog' = [embLog EXCEPT ![i + j] = IF failed THEN "err" ELSE "ok"]
    /\ UNCHANGED <<serveVars, inputVars, tx, clearDB, run, pc, exit, fatal,
                   allTranslations, entries, i, table, resp, baseTable, prev>>

\* The goroutine of slot j: getEmbedding returns and the slot is written.
EmbedReturn(j) ==
    /\ Quiet
    /\ pc = "embedding"
    /\ ~results[j].done
    /\ \E failed \in BOOLEAN :
        /\ results' = [results EXCEPT ![j] =
                [done |-> TRUE, err |-> failed,
                 embedding |-> IF failed THEN <<>>
                               ELSE ModelVector(entries[i + j].EnglishText)]]
        /\ embLog' = [embLog EXCEPT ![i + j] = IF failed THEN "err" ELSE "ok"]
    /\ UNCHANGED <<serveVars, inputVars, tx, clearDB, run, pc, exit, fatal, allTranslations,
                   entries, i, table, resp, baseTable, prev>>

\* The results of the batch as the loop after wg.Wait() reads them: each slot
\* with the entry its goroutine was given.
BatchResults ==
    [j \in 1..Len(results) |->
        [entry |-> entries[i + j], embedding |-> results[j].embedding,
         err |-> results[j].err]]

\* wg.Wait() returning as soon as one goroutine of the batch is done.
WaitDoneAny == \E j \in 1..Len(results) : results[j].done

\* wg.Wait(): every goroutine of the batch has called wg.Done().
WaitDone == \A j \in 1..Len(results) : results[j].done

\* The batchData that ingestCards builds after wg.Wait().
CurrentBatchData == BatchData(BatchResults)

\* ingestCards after wg.Wait(): build batchData; an empty one goes to the next
\* batch, any other enters insertBatch, whose db.Begin opens a transaction or
\* fails.
InsertBatch ==
    /\ Quiet
    /\ pc = "embedding"
    /\ WaitDone
    /\ \/ /\ Len(CurrentBatchData) > 0
          /\ pc' = "insert"
          /\ UNCHANGED <<i, results, exit, fatal>>
       \/ /\ Len(CurrentBatchData) > 0
          /\ Fatal("Failed to ingest cards")
          /\ results' = <<>>
          /\ UNCHANGED i
       \/ /\ Len(CurrentBatchData) = 0
          /\ pc' = "ingest"
          /\ i' = NextBatchStart
          /\ results' = <<>>
          /\ UNCHANGED <<exit, fatal>>
    /\ UNCHANGED <<serveVars, inputVars, clearDB, run, allTranslations, entries, table,
                   tx, resp, histVars>>

\* insertBatch: tx.Exec of the next row of batchData. A row that fails makes
\* insertBatch return, the deferred tx.Rollback() discards the executed rows,
\* and main ends the run.
TxExec ==
    /\ Quiet
    /\ pc = "insert"
    /\ Len(tx) < Len(CurrentBatchData)
    /\ \/ /\ LET r == Exec(table, tx, CurrentBatchData[Len(tx) + 1])
             IN  table' = r.table /\ tx' = r.tx
          /\ UNCHANGED <<pc, exit, fatal, results>>
       \/ /\ tx' = Rollback(tx)
          /\ Fatal("Failed to ingest cards")
          /\ results' = <<>>
          /\ UNCHANGED table
    /\ UNCHANGED <<serveVars, inputVars, clearDB, run, allTranslations, entries, i, resp,
                   histVars>>

\* insertBatch's tx.Commit() with a failed commit logged and the loop going on
\* to the next batch.
TxCommitDropping ==
    /\ Quiet
    /\ pc = "insert"
    /\ Len(tx) = Len(CurrentBatchData)
    /\ \/ table' = insertBatch(table, tx)
       \/ UNCHANGED table
    /\ tx' = <<>>
    /\ pc' = "ingest"
    /\ i' = NextBatchStart
    /\ results' = <<>>
    /\ UNCHANGED <<serveVars, inputVars, clearDB, run, exit, fatal, allTranslations,
                   entries, resp, histVars>>

\* insertBatch: tx.Commit() after the last row. A commit that fails leaves
\* the transaction to the deferred tx.Rollback().
TxCommit ==
    /\ Quiet
    /\ pc = "insert"
    /\ Len(tx) = Len(CurrentBatchData)
    /\ \/ /\ table' = insertBatch(table, tx)
          /\ tx' = <<>>
          /\ pc' = "ingest"
          /\ i' = NextBatchStart
          /\ UNCHANGED <<exit, fatal>>
       \/ /\ tx' = Rollback(tx)
          /\ Fatal("Failed to ingest cards")
          /\ UNCHANGED <<table, i>>
    /\ results' = <<>>
    /\ UNCHANGED <<serveVars, inputVars, clearDB, run, allTranslations, entries, resp,
                   histVars>>

\* ingestCards returns nil and main prints the summary.
Finish ==
    /\ Quiet
    /\ pc = "ingest"
    /\ i >= Len(entries)
    /\ pc' = "idle"
    /\ exit' = 0
    /\ UNCHANGED <<serveVars, inputVars, tx, clearDB, run, fatal, allTranslations, entries, i,
                   results, table, resp, histVars>>

Ingest(runs) ==
    \/ StartRun(runs)
    \/ Configure
    \/ SetupDatabase
    \/ ClearDatabase
    \/ LoadTranslations
    \/ ProcessCardFiles
    \/ StartBatch
    \/ \E j \in 1..MaxBatchSize : j \in DOMAIN results /\ EmbedReturn(j)
    \/ InsertBatch
    \/ TxExec
    \/ TxCommit
    \/ Finish

\* ------------------------------------------------------------------ retrieval
\* validLanguages with a fifth code that is no supported language.
validLanguagesWithEnglish ==
    [lang \in {"it", "fr", "de", "es", "en"} |->
        CASE lang = "it" -> "it_text" [] lang = "fr" -> "fr_text"
          [] lang = "de" -> "de_text" [] OTHER -> "es_text"]

\* validLanguages of RetrieveSimilarCards: language code -> column.
validLanguages ==
    [lang \in {"it", "fr", "de", "es"} |->
        CASE lang = "it" -> "it_text" [] lang = "fr" -> "fr_text"
          [] lang = "de" -> "de_text" [] OTHER -> "es_text"]

\* embedding <-> $1: the (squared) Euclidean distance of two vectors.
RECURSIVE Distance(_, _)
Distance(u, v) ==
    IF u = <<>> \/ v = <<>> THEN 0
    ELSE (Head(u) - Head(v)) * (Head(u) - Head(v)) + Distance(Tail(u), Tail(v))

\* WHERE embedding IS NOT NULL AND card_code IS NOT NULL AND <col> IS NOT NULL
\* (card_code is declared NOT NULL): the positions of the rows that pass.
Qualifying(rows, langColumn) ==
    {n \in 1..Len(rows) : rows[n].embedding.valid /\ rows[n][langColumn].valid}

\* The query without its LIMIT clause.
LimitRowsUnlimited(limit, q) == q

\* LIMIT $2 over q rows.
LimitRows(limit, q) == IF limit < q THEN limit ELSE q

\* The sequences of m different elements of S.
RECURSIVE Arrangements(_, _)
Arrangements(S, m) ==
    IF m = 0 THEN {<<>>}
    ELSE UNION {{<<x>> \o r : r \in Arrangements(S \ {x}, m - 1)} : x \in S}

\* The query without its ORDER BY clause: any rows that pass, in any order.
NearestRowsUnordered(rows, langColumn, queryEmbedding, limit) ==
    LET Q == Qualifying(rows, langColumn)
    IN  Arrangements(Q, LimitRows(limit, Cardinality(Q)))

\* ORDER BY embedding <-> $1 LIMIT $2: every answer the store may give, rows
\* at the same distance coming in any order.
NearestRows(rows, langColumn, queryEmbedding, limit) ==
    LET Q == Qualifying(rows, langColumn)
        m == LimitRows(limit, Cardinality(Q))
        d(n) == Distance(rows[n].embedding.vec, queryEmbedding)
    IN  {r \in Arrangements(Q, m) :
            /\ \A a \in 1..m : \A b \in 1..m : a < b => d(r[a]) <= d(r[b])
            /\ \A n \in Q : (\A a \in 1..m : r[a] # n) =>
                    \A a \in 1..m : d(r[a]) <= d(n)}

\* rows.Scan into a ContextCard; COALESCE(<col>, '') as translated_text.
ContextCard(row, langColumn) ==
    [CardCode |-> row.card_code, CardName |-> row.card_name,
     IsBack |-> row.is_back, EnglishText |-> row.english_text,
     TranslatedText |-> IF row[langColumn].valid THEN row[langColumn].str
                        ELSE Empty]

\* What a call of RetrieveSimilarCards returns: cards (isNil for a nil
\* slice), err, and whether db.Query was called.
Answer(cards, isNil, err, queried) ==
    [kind |-> "answer", cards |-> cards, isNil |-> isNil, err |-> err,
     queried |-> queried]

NoError == <<>>

\* RetrieveSimilarCards validating the language before the query vector.
RetrieveSimilarCardsLanguageFirst(rows, queryEmbedding, limit, language, storeUp) ==
    IF language \notin DOMAIN validLanguages
    THEN {Answer(<<>>, TRUE,
                 <<"unsupported language", language, "it, fr, de, es">>, FALSE)}
    ELSE IF Len(queryEmbedding) = 0
    THEN {Answer(<<>>, TRUE, <<"query embedding is empty">>, FALSE)}
    ELSE IF ~storeUp
    THEN {Answer(<<>>, TRUE, <<"failed to query similar cards">>, TRUE)}
    ELSE LET langColumn == validLanguages[language]
         IN  {Answer([a \in 1..Len(r) |-> ContextCard(rows[r[a]], langColumn)],
                     FALSE, NoError, TRUE) :
                r \in NearestRows(rows, langColumn, queryEmbedding, limit)}

\* RetrieveSimilarCards(db, queryEmbedding, limit, language) on a table
\* holding rows; storeUp tells whether db.Query succeeds.  The set of the
\* answers it may return.
RetrieveSimilarCards(rows, queryEmbedding, limit, language, storeUp) ==
    IF Len(queryEmbedding) = 0
    THEN {Answer(<<>>, TRUE, <<"query embedding is empty">>, FALSE)}
    ELSE IF language \notin DOMAIN validLanguages
    THEN {Answer(<<>>, TRUE,
                 <<"unsupported language", language, "it, fr, de, es">>, FALSE)}
    ELSE IF ~storeUp
    THEN {Answer(<<>>, TRUE, <<"failed to query similar cards">>, TRUE)}
    ELSE LET langColumn == validLanguages[language]
         IN  {Answer([a \in 1..Len(r) |-> ContextCard(rows[r[a]], langColumn)],
                     FALSE, NoError, TRUE) :
                r \in NearestRows(rows, langColumn, queryEmbedding, limit)}

\* The query vectors of the model: the empty one and two points.
QueryVectors == {<<>>, <<1>>, <<3>>}

\* The language codes a caller may pass: the supported ones and two others.
QueryLanguages == Langs \cup {"en", ""}

\* A caller (the API server, a test) calls RetrieveSimilarCards.
Retrieve ==
    /\ resp = NoResp
    /\ \E q \in QueryVectors, k \in 0..MaxK, lang \in QueryLanguages,
          storeUp \in BOOLEAN :
        \E ans \in RetrieveSimilarCards(table, q, k, lang, storeUp) :
            resp' = ans @@ [queryEmbedding |-> q, limit |-> k,
                            language |-> lang]
    /\ UNCHANGED <<serveVars, inputVars, tx, clearDB, run, pc, exit, fatal, allTranslations,
                   entries, i, results, table, histVars>>

\* The caller has taken the answer.
RetrieveReturn ==
    /\ resp # NoResp
    /\ resp' = NoResp
    /\ UNCHANGED <<serveVars, inputVars, tx, clearDB, run, pc, exit, fatal, allTranslations,
                   entries, i, results, table, histVars>>

\* The CLI run twice on one database.
Next == Ingest(Runs)

\* One run of the CLI, and callers of the retrieval service at any moment of
\* it.
NextQuery ==
    \/ Ingest({1})
    \/ Retrieve
    \/ RetrieveReturn

QuerySpec == Init /\ [][NextQuery]_vars

Spec == Init /\ [][Next]_vars

\* The values of -batch-size: flag.Int takes any integer, and main passes it
\* on unexamined.
BatchSizeFlags == -1..MaxBatchSize

\* The CLI started with any value of -batch-size.
InitFlags ==
    /\ InitServer
    /\ fs \in FileSystems
    /\ limitEntries \in 0..MaxLimit
    /\ batchSize \in BatchSizeFlags
    /\ clearDB = FALSE
    /\ run = 0
    /\ pc = "idle"
    /\ exit = 0
    /\ fatal = ""
    /\ allTranslations = [lang \in Langs |-> EmptyMap]
    /\ entries = <<>>
    /\ i = 0
    /\ results = <<>>
    /\ table = <<>>
    /\ tx = <<>>
    /\ resp = NoResp
    /\ embLog = <<>>
    /\ baseTable = <<>>
    /\ prev = NoPrev

\* One run of the CLI with any value of -batch-size.
NextFlags ==
    \/ Ingest({1})
    \/ BatchPanic

FlagSpec == InitFlags /\ [][NextFlags]_vars

\* ------------------------------------------------------------------ claims
LangColumns == {validLanguages[lang] : lang \in Langs}

\* The entry has a non-blank translation in some supported language.
Grounded(e) ==
    \E lang \in Langs :
        /\ lang \in DOMAIN e.Translations
        /\ TrimSpace(e.Translations[lang]) # Empty

\* The row holds a non-blank text in some language column.
RowGrounded(row) ==
    \E col \in LangColumns : row[col].valid /\ TrimSpace(row[col].str) # Empty

\* The two-card fixture: card A with front and back, both translated to
\* "it"; card B with a front only, translated to "fr".
FixtureFS ==
    [pack |-> <<PackDir(<<File(<<CardA, CardB>>)>>)>>,
     trans |-> [lang \in Langs |->
        CASE lang = "it" -> TransDir(<<PackDir(<<File(<<TrA>>)>>)>>)
          [] lang = "fr" -> TransDir(<<PackDir(<<File(<<TrB>>)>>)>>)
          [] OTHER -> NoTransDir]]

\* The run has ended with status 0.
Completed == pc = "idle" /\ run >= 1 /\ exit = 0

\* Every embedding call of the run succeeded.
AllEmbedded == \A n \in 1..Len(embLog) : embLog[n] = "ok"

\* C1: every entry that processCardFiles emits, and every row that a run
\* inserts into card_embeddings, has a non-blank translation in at least one
\* supported language.
C1_Grounded ==
    /\ \A n \in 1..Len(entries) : Grounded(entries[n])
    /\ \A n \in 1..Len(table) : RowGrounded(table[n])

\* C1 witness: a run on a tree where card B has an English front but only a
\* blank French translation has completed; it inserted rows, none for B.
C1_Witness ==
    /\ Completed
    /\ fs.pack = FixtureFS.pack
    /\ fs.trans["fr"] # FixtureFS.trans["fr"]
    /\ limitEntries = 0
    /\ Len(table) >= 2
    /\ \A n \in 1..Len(table) : table[n].card_code # "B"

\* The set of the entries of a list.
EntrySet(es) == {es[n] : n \in 1..Len(es)}

\* The orders a sequence may be listed in.
PermsOf(s) ==
    {[n \in 1..Len(s) |-> s[o[n]]] : o \in Arrangements(1..Len(s), Len(s))}

\* The packs in the order given, the files of each in any order.
RECURSIVE FilesReordered(_)
FilesReordered(packs) ==
    IF packs = <<>> THEN {<<>>}
    ELSE {<<[Head(packs) EXCEPT !.files = f]>> \o t :
            f \in PermsOf(Head(packs).files), t \in FilesReordered(Tail(packs))}

\* The orders a glob may list the pack directories and the files of a tree in.
TreeOrders(packs) == UNION {FilesReordered(q) : q \in PermsOf(packs)}

\* The same files as in f, enumerated in any order.
Reorderings(f) ==
    {[pack |-> c, trans |-> t] :
        c \in TreeOrders(f.pack),
        t \in {u \in [Langs -> UNION {{[f.trans[lang] EXCEPT !.packs = q] :
                                        q \in TreeOrders(f.trans[lang].packs)} :
                                      lang \in Langs}] :
                \A lang \in Langs :
                    /\ u[lang].exists = f.trans[lang].exists
                    /\ u[lang].packs \in TreeOrders(f.trans[lang].packs)}}

\* loadTranslations for every language, then processCardFiles.
Reconcile(f) == processCardFiles(f.pack, LoadAllTranslations(f.trans))

C7_MissingIsNull ==
    \A n \in 1..Len(table) : \A col \in LangColumns :
        table[n][col].valid => table[n][col].str # Empty

\* The rows of the table for card code c.
RowsOf(c, isBack) ==
    {n \in 1..Len(table) : table[n].card_code = c /\ table[n].is_back = isBack}

\* C8: a run with -clear on the two-card fixture, every embedding call
\* succeeding, leaves exactly three rows (A front, A back, B front); the row
\* of B has a NULL "it" column and a non-NULL "fr" column.
C8_Fixture ==
    (Completed /\ clearDB /\ fs = FixtureFS /\ limitEntries = 0 /\ AllEmbedded) =>
        /\ Len(table) = 3
        /\ Cardinality(RowsOf("A", FALSE)) = 1
        /\ Cardinality(RowsOf("A", TRUE)) = 1
        /\ Cardinality(RowsOf("B", FALSE)) = 1
        /\ \A n \in RowsOf("B", FALSE) :
                ~table[n].it_text.valid /\ table[n].fr_text.valid

\* The second run has ended like the first: both with -clear, both with
\* status 0, the embedding calls with the same outcomes.
SecondRunLikeFirst ==
    /\ Completed
    /\ run = 2
    /\ clearDB
    /\ prev.clearDB
    /\ prev.exit = 0
    /\ prev.embLog = embLog

\* C9: after a second run with -clear on the same input, with the same
\* embedding outcomes, the table holds the same rows as after the first.
C9_Idempotent == SecondRunLikeFirst => table = prev.table

\* C9 witness: two such runs, each leaving rows, one embedding call failing
\* in both.
C9_Witness ==
    /\ SecondRunLikeFirst
    /\ Len(table) >= 2
    /\ \E n \in 1..Len(embLog) : embLog[n] = "err"

\* The entries of the batches that ingestCards has finished.
Ingested == IF i < Len(entries) THEN i ELSE Len(entries)

\* The rows of the first n entries whose embedding call succeeded, each with
\* the embedding of its own English text, in the order of the entries.
RECURSIVE EmbeddedRows(_)
EmbeddedRows(n) ==
    IF n = 0 THEN <<>>
    ELSE EmbeddedRows(n - 1) \o
         (IF embLog[n] = "ok"
          THEN <<BatchRow([entry |-> entries[n],
                           embedding |-> ModelVector(entries[n].EnglishText)])>>
          ELSE <<>>)

\* C10: while ingestCards runs and after it, the rows it has added are the
\* rows of exactly the entries of the finished batches whose embedding call
\* succeeded; the run ends with status 0 only after the last batch, and it
\* fails in a batch only when that batch had a row to insert.
C10_FailedItemsOnly ==
    /\ (pc \in {"ingest", "embedding", "insert"}
            \/ (pc = "idle" /\ entries # <<>>)) =>
            table = baseTable \o EmbeddedRows(Ingested)
    /\ (Completed /\ entries # <<>>) => i >= Len(entries)
    /\ (pc = "idle" /\ entries # <<>> /\ exit = 1) =>
            \E n \in (i + 1)..Len(entries) : n <= i + batchSize /\ embLog[n] = "ok"

\* C10 witness: a completed run whose first batch had a failed and a
\* successful embedding call, and a later batch a successful one.
C10_Witness ==
    /\ Completed
    /\ batchSize = 2
    /\ Len(entries) >= 3
    /\ embLog[1] = "err"
    /\ embLog[2] = "ok"
    /\ embLog[3] = "ok"
    /\ Len(table) = Len(baseTable) + 2

\* A call of RetrieveSimilarCards has returned.
Answered == resp # NoResp

\* The call returned rows: db.Query was reached and succeeded.
Retrieved == Answered /\ resp.err = NoError

\* The column of the language the caller asked for.
AskedColumn == validLanguages[resp.language]

\* The rows of the table that the card of an answer may come from.
SourceRows(card) ==
    {n \in 1..Len(table) :
        /\ table[n].card_code = card.CardCode
        /\ table[n].card_name = card.CardName
        /\ table[n].is_back = card.IsBack
        /\ table[n].english_text = card.EnglishText
        /\ table[n][AskedColumn].str = card.TranslatedText}

\* C3: on every table the ingestion produces, every row that
\* RetrieveSimilarCards returns has a non-null, non-empty text in the column
\* of the requested language and a non-null embedding.
C3_NoEmptyTranslation ==
    Retrieved =>
        \A a \in 1..Len(resp.cards) :
            /\ resp.cards[a].TranslatedText # Empty
            /\ \E n \in SourceRows(resp.cards[a]) :
                    /\ table[n].embedding.valid
                    /\ table[n][AskedColumn].valid

\* The store answered the query, or was not asked.
StoreAnswered == resp.err # <<"failed to query similar cards">>

\* The smaller of two numbers.
Min(a, b) == IF a < b THEN a ELSE b

\* C4: for a non-empty query vector and a supported language, when the store
\* answers, RetrieveSimilarCards returns without error a non-nil list of
\* exactly min(k, q) rows, q the number of rows that pass the query's filter.
C4_RowCount ==
    (Answered /\ Len(resp.queryEmbedding) > 0 /\ resp.language \in Langs
        /\ StoreAnswered) =>
            /\ resp.err = NoError
            /\ ~resp.isNil
            /\ Len(resp.cards) =
                    Min(resp.limit, Cardinality(Qualifying(table, AskedColumn)))

\* C4 witness: fewer rows pass the filter than were asked for, and all of
\* them are returned.
C4_Witness ==
    /\ Retrieved
    /\ Len(resp.cards) > 0
    /\ Len(resp.cards) < resp.limit
    /\ Len(resp.cards) = Cardinality(Qualifying(table, AskedColumn))

\* The answer is the unsupported-language error, listing the supported codes,
\* with no rows and without a query.
UnsupportedLanguage ==
    /\ resp.err = <<"unsupported language", resp.language, "it, fr, de, es">>
    /\ resp.isNil
    /\ resp.cards = <<>>
    /\ ~resp.queried

\* C5 as stated: a call with a language outside {it, fr, de, es} always fails
\* with the unsupported-language error.
C5_AlwaysUnsupported ==
    (Answered /\ resp.language \notin Langs) => UnsupportedLanguage

\* C5 as amended: a call with a non-empty query vector and a language outside
\* {it, fr, de, es} fails with the unsupported-language error, which lists
\* the supported codes, returns no rows and issues no query.
C5_UnsupportedLanguage ==
    (Answered /\ resp.language \notin Langs /\ Len(resp.queryEmbedding) > 0) =>
        UnsupportedLanguage

\* C5 witness: a call for language "en" with a non-empty vector, on a table
\* that holds rows, has failed.
C5_Witness ==
    /\ Answered
    /\ resp.language = "en"
    /\ Len(resp.queryEmbedding) > 0
    /\ Len(table) > 0
    /\ resp.err # NoError

\* C6: a call with an empty query vector fails with "query embedding is
\* empty" and a nil result, and db.Query is not called.
C6_EmptyEmbedding ==
    (Answered /\ Len(resp.queryEmbedding) = 0) =>
        /\ resp.err = <<"query embedding is empty">>
        /\ resp.isNil
        /\ resp.cards = <<>>
        /\ ~resp.queried

\* C6 witness: a call with an empty vector and an unsupported language, on a
\* table that holds rows, has failed.
C6_Witness ==
    /\ Answered
    /\ Len(resp.queryEmbedding) = 0
    /\ resp.language \notin Langs
    /\ Len(table) > 0
    /\ resp.err # NoError

\* The run ended in log.Fatalf("Failed to ingest cards").
InsertFailed == pc = "idle" /\ fatal = "Failed to ingest cards"

\* The entry counts at which a batch of the run ends.
BatchBoundaries ==
    {b \in 0..Len(entries) : b = Len(entries) \/ b % batchSize = 0}

\* C11: the table that readers see holds whole batches only. While the
\* transaction of a batch is open, and after insertBatch has failed, it has
\* none of that batch's rows; in every state of ingestCards it is the table
\* the run started from followed by the rows of all entries up to some batch
\* boundary.
C11_AllOrNothing ==
    /\ (pc = "insert" \/ InsertFailed) =>
            table = baseTable \o EmbeddedRows(i)
    /\ entries # <<>> =>
            \E b \in BatchBoundaries : table = baseTable \o EmbeddedRows(b)

\* C11 witness: the second batch of a run has two rows to insert, the first
\* of them is executed in the open transaction and the table does not have
\* it.
C11_Witness ==
    /\ pc = "insert"
    /\ i >= 1
    /\ Len(CurrentBatchData) = 2
    /\ Len(tx) = 1
    /\ Len(table) > Len(baseTable)

\* C12: a run whose batch insert failed has ended with status 1 at that
\* batch: the table is the one the run started from followed by the rows of
\* the batches before it, and no embedding call was made for any entry after
\* it. A run that ended with status 0 has the rows of every batch, so no
\* batch was dropped on the way.
C12_FailedBatchEndsRun ==
    /\ InsertFailed =>
        /\ exit = 1
        /\ i < Len(entries)
        /\ Len(table) = Len(baseTable) + Len(EmbeddedRows(i))
        /\ \A n \in 1..Len(table) :
                table[n] = (baseTable \o EmbeddedRows(i))[n]
        /\ \A n \in 1..Len(entries) : n > i + batchSize => embLog[n] = "none"
    /\ (Completed /\ entries # <<>>) =>
            table = baseTable \o EmbeddedRows(Len(entries))

\* C12 witness: the second batch of a run failed to insert; the rows of the
\* first are in the table and a third batch was never started.
C12_Witness ==
    /\ InsertFailed
    /\ i >= 1
    /\ Len(table) > Len(baseTable)
    /\ i + batchSize < Len(entries)
    /\ embLog[Len(entries)] = "none"

\* --------------------------------------------------------------- the clients
\* What one HTTP request to the upstream API comes back with: a transport
\* error (client.Do fails, a timeout included), or a response with a status,
\* a body that decodes or does not, and the items of its result list.
TransportError ==
    [transport |-> FALSE, status |-> 0, decodes |-> FALSE, items |-> <<>>]

HttpResponse(status, decodes, items) ==
    [transport |-> TRUE, status |-> status, decodes |-> decodes,
     items |-> items]

\* The answers of the embeddings endpoint to a request for text; an item
\* whose "embedding" is missing decodes to the same empty list as an empty
\* one.
EmbeddingResponses(text) ==
    {TransportError,
     HttpResponse(500, TRUE, <<>>),
     HttpResponse(200, FALSE, <<>>),
     HttpResponse(200, TRUE, <<>>),
     HttpResponse(200, TRUE, <<[Embedding |-> <<>>]>>),
     HttpResponse(200, TRUE, <<[Embedding |-> ModelVector(text)]>>)}

\* The answers of the chat completions endpoint; "[action]" stands for a game
\* symbol in single brackets, one element of a text.
ChatResponses ==
    {TransportError,
     HttpResponse(500, TRUE, <<>>),
     HttpResponse(200, FALSE, <<>>),
     HttpResponse(200, TRUE, <<>>),
     HttpResponse(200, TRUE, <<[Content |-> Empty]>>),
     HttpResponse(200, TRUE, <<[Content |-> <<" ", "t", " ">>]>>),
     HttpResponse(200, TRUE, <<[Content |-> <<"[action]", "t">>]>>)}

\* The error of a client for the response u, NoError when it has none.
ClientError(u, empty) ==
    IF ~u.transport THEN <<"failed to execute request">>
    ELSE IF u.status # 200 THEN <<"OpenAI API error">>
    ELSE IF ~u.decodes THEN <<"failed to decode response">>
    ELSE IF Len(u.items) = 0 THEN <<empty>>
    ELSE NoError

\* GetEmbedding that sends the request again when the first attempt failed.
GetEmbeddingRetrying(text, us) ==
    LET failed == ClientError(us[1], "no embedding returned") # NoError
        u == IF failed THEN us[2] ELSE us[1]
        err == ClientError(u, "no embedding returned")
    IN  [upstream |-> IF failed THEN us ELSE <<us[1]>>,
         embedding |-> IF err = NoError THEN u.items[1].Embedding ELSE <<>>,
         err |-> err]

\* GetEmbedding(text, apiKey, model), us being what the upstream would answer
\* to successive requests: one client.Do, then the status, the decoding and
\* the length of data are checked and data[0].embedding is converted.
GetEmbedding(text, us) ==
    LET u == us[1]
        err == ClientError(u, "no embedding returned")
    IN  [upstream |-> <<u>>,
         embedding |-> IF err = NoError THEN u.items[1].Embedding ELSE <<>>,
         err |-> err]

\* GenerateTranslation(englishText, contextCards, apiKey, language): one
\* client.Do with the prompt for the language, the same checks, and the
\* trimmed content of the first choice.
GenerateTranslation(englishText, cards, language, us) ==
    LET u == us[1]
        err == ClientError(u, "no translation returned")
    IN  [upstream |-> <<u>>,
         translation |-> IF err = NoError
                         THEN TrimSpace(u.items[1].Content) ELSE Empty,
         err |-> err]

\* --------------------------------------------------------------- the server
\* A request body that is not JSON.
InvalidJSON == [json |-> FALSE, fields |-> EmptyMap]

\* A JSON object with the given fields.
JSONBody(fields) == [json |-> TRUE, fields |-> fields]

Methods == {"POST", "OPTIONS", "GET"}

Bodies ==
    {InvalidJSON, JSONBody(EmptyMap), JSONBody([language |-> "it"]),
     JSONBody([text |-> Empty])}
    \cup {JSONBody([text |-> t]) :
            t \in {<<"a">>, <<"c", "c", "c">>, <<"[action]", "a">>}}
    \cup {JSONBody([text |-> <<"a">>, language |-> l]) :
            l \in {"it", "fr", "xx"}}

\* json.NewDecoder(r.Body).Decode(&req) into a TranslateRequest, whose only
\* field is Text: other fields of the body are dropped.
Decode(body) == [ok |-> body.json, Text |-> MapGet(body.fields, "text")]

\* http.Error(w, message, status).
HttpError(status, message) ==
    [status |-> status, kind |-> "error", message |-> message]

\* translateHandler without the check of req.Text.
ValidateAnyText(method, body) ==
    IF method = "OPTIONS" THEN [status |-> 200, kind |-> "empty"]
    ELSE IF method # "POST" THEN HttpError(405, "Method not allowed")
    ELSE IF ~Decode(body).ok THEN HttpError(400, "Invalid request body")
    ELSE NoHttpResp

\* translateHandler before step 1: the response that ends the request, or
\* NoHttpResp when the request goes on to the embedding call.
Validate(method, body) ==
    IF method = "OPTIONS" THEN [status |-> 200, kind |-> "empty"]
    ELSE IF method # "POST" THEN HttpError(405, "Method not allowed")
    ELSE IF ~Decode(body).ok THEN HttpError(400, "Invalid request body")
    ELSE IF Decode(body).Text = Empty
    THEN HttpError(400, "Text field is required")
    ELSE NoHttpResp

\* The language given in the body of the request, "" when it gives none.
BodyLanguage(body) ==
    IF "language" \in DOMAIN body.fields THEN body.fields["language"] ELSE ""

\* The handler passing the language of the body on as it is.
TargetLanguageOfBody(body) == BodyLanguage(body)

\* The language of steps 2 and 3: the handler calls the retrieval and the
\* generation without a language argument, for Italian.
TargetLanguage(body) == "it"

\* A request arrives and translateHandler handles it up to step 1.
HandleRequest ==
    /\ hpc = "idle"
    /\ \E method \in Methods, body \in Bodies :
        /\ req' = [method |-> method, body |-> body]
        /\ httpResp' = Validate(method, body)
        /\ hpc' = IF Validate(method, body) = NoHttpResp
                  THEN "embedding" ELSE "idle"
    /\ hQueryEmbedding' = <<>>
    /\ hContextCards' = <<>>
    /\ calls' = <<>>
    /\ UNCHANGED <<ingestVars>>

\* Step 1: embeddings.GetEmbedding(req.Text, ...).
HandlerEmbedding ==
    /\ hpc = "embedding"
    /\ \E u1, u2 \in EmbeddingResponses(Decode(req.body).Text) :
        LET r == GetEmbedding(Decode(req.body).Text, <<u1, u2>>)
        IN  /\ calls' = Append(calls, [op |-> "GetEmbedding",
                                       upstream |-> r.upstream,
                                       err |-> r.err])
            /\ IF r.err # NoError
               THEN /\ httpResp' = HttpError(500, "Failed to generate embedding")
                    /\ hpc' = "idle"
                    /\ UNCHANGED hQueryEmbedding
               ELSE /\ hQueryEmbedding' = r.embedding
                    /\ hpc' = "retrieval"
                    /\ UNCHANGED httpResp
    /\ UNCHANGED <<ingestVars, req, hContextCards>>

\* Step 2 with a failed retrieval logged and the request going on with no
\* context.
HandlerRetrievalFallback ==
    /\ hpc = "retrieval"
    /\ \E storeUp \in BOOLEAN :
        \E ans \in RetrieveSimilarCards(table, hQueryEmbedding, 5,
                                        TargetLanguage(req.body), storeUp) :
            /\ calls' = Append(calls, [op |-> "RetrieveSimilarCards",
                                       language |-> TargetLanguage(req.body),
                                       queried |-> ans.queried,
                                       err |-> ans.err])
            /\ hContextCards' = ans.cards
    /\ hpc' = "generation"
    /\ UNCHANGED <<ingestVars, req, hQueryEmbedding, httpResp>>

\* Step 2: rag.RetrieveSimilarCards(database, queryEmbedding, 5).
HandlerRetrieval ==
    /\ hpc = "retrieval"
    /\ \E storeUp \in BOOLEAN :
        \E ans \in RetrieveSimilarCards(table, hQueryEmbedding, 5,
                                        TargetLanguage(req.body), storeUp) :
            /\ calls' = Append(calls, [op |-> "RetrieveSimilarCards",
                                       language |-> TargetLanguage(req.body),
                                       queried |-> ans.queried,
                                       err |-> ans.err])
            /\ IF ans.err # NoError
               THEN /\ httpResp' = HttpError(500, "Failed to retrieve context")
                    /\ hpc' = "idle"
                    /\ UNCHANGED hContextCards
               ELSE /\ hContextCards' = ans.cards
                    /\ hpc' = "generation"
                    /\ UNCHANGED httpResp
    /\ UNCHANGED <<ingestVars, req, hQueryEmbedding>>

\* Steps 3 and 4: rag.GenerateTranslation(req.Text, contextCards, ...) and the
\* JSON response.
HandlerGeneration ==
    /\ hpc = "generation"
    /\ \E u1, u2 \in ChatResponses :
        LET r == GenerateTranslation(Decode(req.body).Text, hContextCards,
                                     TargetLanguage(req.body), <<u1, u2>>)
        IN  /\ calls' = Append(calls, [op |-> "GenerateTranslation",
                                       language |-> TargetLanguage(req.body),
                                       upstream |-> r.upstream,
                                       err |-> r.err])
            /\ httpResp' =
                IF r.err # NoError
                THEN HttpError(500, "Failed to generate translation")
                ELSE [status |-> 200, kind |-> "json",
                      translation |-> r.translation,
                      context |-> hContextCards]
    /\ hpc' = "idle"
    /\ UNCHANGED <<ingestVars, req, hQueryEmbedding, hContextCards>>

\* The tables the server runs on: an empty one, and the one that an
\* ingestion of the two-card fixture leaves.
FixtureTable ==
    LET es == Reconcile(FixtureFS)
    IN  BatchData([n \in 1..Len(es) |->
            [entry |-> es[n], embedding |-> ModelVector(es[n].EnglishText),
             err |-> FALSE]])

InitServe ==
    /\ InitServer
    /\ fs = FixtureFS
    /\ limitEntries = 0
    /\ batchSize = 1
    /\ clearDB = FALSE
    /\ run = 0
    /\ pc = "idle"
    /\ exit = 0
    /\ fatal = ""
    /\ allTranslations = [lang \in Langs |-> EmptyMap]
    /\ entries = <<>>
    /\ i = 0
    /\ results = <<>>
    /\ table \in {<<>>, FixtureTable}
    /\ tx = <<>>
    /\ resp = NoResp
    /\ embLog = <<>>
    /\ baseTable = <<>>
    /\ prev = NoPrev

NextServe ==
    \/ HandleRequest
    \/ HandlerEmbedding
    \/ HandlerRetrieval
    \/ HandlerGeneration

\* The server handling requests on a table that no ingestion is changing.
ServeSpec == InitServe /\ [][NextServe]_vars

\* The names of the calls made for the request, in order.
CallOps == [k \in 1..Len(calls) |-> calls[k].op]

HandlerSteps == <<"GetEmbedding", "RetrieveSimilarCards", "GenerateTranslation">>

\* The request was accepted by the validation of the handler.
Accepted == req.method = "POST" /\ Validate(req.method, req.body) = NoHttpResp

\* The handler has written the response of the request.
Responded == hpc = "idle" /\ httpResp # NoHttpResp

\* C13: the calls of a request are a prefix of embedding, retrieval,
\* generation, each made after the one before it returned without error;
\* a response with status 500 follows a failed call at once and has neither
\* a translation nor a context, and a response with a translation follows
\* three successful calls and has the context that the retrieval returned.
C13_Sequential ==
    /\ Len(calls) <= 3
    /\ CallOps = SubSeq(HandlerSteps, 1, Len(calls))
    /\ \A k \in 1..Len(calls) : k < Len(calls) => calls[k].err = NoError
    /\ hpc = "retrieval" => Len(calls) = 1 /\ calls[1].err = NoError
    /\ hpc = "generation" => Len(calls) = 2 /\ calls[2].err = NoError
    /\ (Responded /\ Accepted) =>
        /\ Len(calls) >= 1
        /\ calls[Len(calls)].err # NoError =>
            /\ httpResp.status = 500
            /\ DOMAIN httpResp \cap {"translation", "context"} = {}
        /\ calls[Len(calls)].err = NoError =>
            /\ Len(calls) = 3
            /\ httpResp.status = 200
            /\ {"translation", "context"} \subseteq DOMAIN httpResp
            /\ httpResp.context = hContextCards

\* C13 witness: the retrieval of a request failed after a successful
\* embedding call; the response is an error and no generation was called.
C13_Witness ==
    /\ Responded
    /\ Accepted
    /\ Len(calls) = 2
    /\ calls[1].err = NoError
    /\ calls[2].err # NoError
    /\ httpResp.status = 500

\* A request has arrived.
Requested == req # NoReq

\* The text of the request's body is empty or missing.
NoText == MapGet(req.body.fields, "text") = Empty

\* C14: a request whose method is neither POST nor OPTIONS is answered with
\* status 405, a POST whose body is not JSON with status 400, and a POST whose
\* JSON body has an empty or no text with status 400; for none of them an
\* embedding, retrieval or generation call is made.
C14_RejectedEarly ==
    Requested =>
        /\ req.method \notin {"POST", "OPTIONS"} =>
                Responded /\ httpResp.status = 405 /\ calls = <<>>
        /\ (req.method = "POST" /\ ~req.body.json) =>
                Responded /\ httpResp.status = 400 /\ calls = <<>>
        /\ (req.method = "POST" /\ req.body.json /\ NoText) =>
                Responded /\ httpResp.status = 400 /\ calls = <<>>

\* C14 witness: a POST with the body {} has been answered with status 400
\* and no call was made for it.
C14_Witness ==
    /\ Requested
    /\ req.method = "POST"
    /\ req.body = JSONBody(EmptyMap)
    /\ httpResp = HttpError(400, "Text field is required")
    /\ calls = <<>>

\* C15: a POST that names a language outside it, fr, de, es is answered with
\* status 400 and no embedding call and no store query is made for it.
C15_UnsupportedLanguageRejected ==
    (Requested /\ req.method = "POST" /\ req.body.json
        /\ BodyLanguage(req.body) \notin DOMAIN validLanguages \cup {""}) =>
            /\ Responded
            /\ httpResp.status = 400
            /\ calls = <<>>

\* The calls of the request that take a target language.
LanguageCalls ==
    {k \in 1..Len(calls) :
        calls[k].op \in {"RetrieveSimilarCards", "GenerateTranslation"}}

\* Every card of the context is a row of the table with its Italian column
\* as the translated text.
ItalianContext(cards) ==
    \A k \in 1..Len(cards) :
        \E n \in 1..Len(table) :
            /\ table[n].it_text.valid
            /\ cards[k] = ContextCard(table[n], "it_text")

\* C16: for a POST whose body gives no language, as for one that gives "it",
\* the retrieval and the generation are called for "it", and the context
\* that the retrieval returns, and the response carries, is read from the
\* Italian column.
C16_DefaultItalian ==
    (Requested /\ req.method = "POST" /\ req.body.json
        /\ BodyLanguage(req.body) \in {"", "it"}) =>
            /\ \A k \in LanguageCalls : calls[k].language = "it"
            /\ ItalianContext(hContextCards)
            /\ "context" \in DOMAIN httpResp => ItalianContext(httpResp.context)

\* C16 witness: a POST with a text and no language has been answered with a
\* translation and a context of Italian rows, after a retrieval and a
\* generation for "it".
C16_Witness ==
    /\ Responded
    /\ req.method = "POST"
    /\ req.body = JSONBody([text |-> <<"a">>])
    /\ httpResp.status = 200
    /\ Len(httpResp.context) >= 2
    /\ httpResp.translation # Empty
    /\ calls[2].language = "it"
    /\ calls[3].language = "it"

\* The response u carries no usable embedding: it is no 200 response, its
\* data list is empty, or the embedding of its first item is empty or missing.
NoUsableEmbedding(u) ==
    \/ ~u.transport
    \/ u.status # 200
    \/ ~u.decodes
    \/ Len(u.items) = 0
    \/ Len(u.items[1].Embedding) = 0

\* C17: a call of GetEmbedding whose response carries no usable embedding
\* has returned an error, and a vector that GetEmbedding returned without an
\* error is not empty.
C17_NeverEmptyVector ==
    /\ \A k \in 1..Len(calls) :
        (calls[k].op = "GetEmbedding"
            /\ NoUsableEmbedding(calls[k].upstream[1])) =>
                calls[k].err # NoError
    /\ hpc = "retrieval" => Len(hQueryEmbedding) > 0

\* The calls of the request that go to the upstream API.
UpstreamCalls ==
    {k \in 1..Len(calls) :
        calls[k].op \in {"GetEmbedding", "GenerateTranslation"}}

\* The upstream call failed: a transport error, a status other than 200, or
\* an empty result list.
UpstreamFailed(u) == ~u.transport \/ u.status # 200 \/ Len(u.items) = 0

\* C18: every call of GetEmbedding and of GenerateTranslation has sent one
\* request upstream and no second one; when that request failed the call
\* returned an error, it is the last call of the translate request, and the
\* translate request was answered with status 500.
C18_NoRetries ==
    \A k \in UpstreamCalls :
        /\ Len(calls[k].upstream) = 1
        /\ UpstreamFailed(calls[k].upstream[1]) =>
            /\ calls[k].err # NoError
            /\ k = Len(calls)
            /\ Responded
            /\ httpResp.status = 500

\* C18 witness: the chat endpoint answered the one request of
\* GenerateTranslation with an empty list of choices, after an embedding call
\* that succeeded with its one request; the translate request failed.
C18_Witness ==
    /\ Responded
    /\ Len(calls) = 3
    /\ Len(calls[1].upstream) = 1
    /\ calls[3].upstream = <<HttpResponse(200, TRUE, <<>>)>>
    /\ httpResp = HttpError(500, "Failed to generate translation")

\* A run of the CLI has ended.
RunEnded == pc = "idle" /\ run >= 1

\* The messages of the setup and batch failures: credentials, data
\* directory, store, schema setup, clear, batch insert.
SetupOrBatchFailures ==
    {"OpenAI API key required", "Data directory not found",
     "Failed to connect to database", "Failed to setup database",
     "Failed to clear database", "Failed to ingest cards"}

\* C19 as stated: a run ends with a non-zero status exactly when it ended in
\* a setup or batch failure, and with status 0 otherwise, also when every
\* item was skipped.
C19_ExitOnlyOnFailures ==
    RunEnded =>
        /\ exit \in {0, 1}
        /\ exit # 0 <=> fatal \in SetupOrBatchFailures

\* C19 amended: a run ends with status 1 exactly when it ended in a setup or
\* batch failure or when processCardFiles emitted no entry at all ("No cards
\* found to process"); otherwise it ends with status 0 after the last batch,
\* whatever the number of skipped items and failed embedding calls.
C19_ExitStatus ==
    RunEnded =>
        /\ exit \in {0, 1}
        /\ exit # 0 <=>
            fatal \in SetupOrBatchFailures \cup {"No cards found to process"}
        /\ fatal = "No cards found to process" => Reconcile(fs) = <<>>
        /\ exit = 0 => entries # <<>> /\ i >= Len(entries)

\* C19 witness: a run in which at least two entries were extracted and every
\* embedding call failed has ended with status 0 and has inserted nothing.
C19_Witness ==
    /\ RunEnded
    /\ exit = 0
    /\ Len(entries) >= 2
    /\ \A n \in 1..Len(embLog) : embLog[n] = "err"
    /\ table = baseTable

\* The distance of row n of the table from the query vector of the answer.
RowDistance(n) == Distance(table[n].embedding.vec, resp.queryEmbedding)

\* C20: the cards of an answer come in the order of non-decreasing distance
\* of their rows from the query vector, and when a row that passes the filter
\* of the query has the query vector as its embedding, the first card is a
\* row with that embedding (for a limit of at least one).
C20_ClosestFirst ==
    Retrieved =>
        /\ \A k \in 1..Len(resp.cards) : SourceRows(resp.cards[k]) # {}
        /\ \A a \in 1..Len(resp.cards) : \A b \in 1..Len(resp.cards) :
            a < b =>
                \A n \in SourceRows(resp.cards[a]) :
                    \A m \in SourceRows(resp.cards[b]) :
                        RowDistance(n) <= RowDistance(m)
        /\ (resp.limit >= 1
            /\ \E n \in Qualifying(table, AskedColumn) :
                    table[n].embedding.vec = resp.queryEmbedding) =>
                /\ Len(resp.cards) >= 1
                /\ \A n \in SourceRows(resp.cards[1]) :
                        table[n].embedding.vec = resp.queryEmbedding

\* C20 witness: a query with the embedding of a row that is not the first of
\* the table returned that row first and a row farther away second.
C20_Witness ==
    /\ Retrieved
    /\ resp.queryEmbedding = <<3>>
    /\ Len(resp.cards) = 2
    /\ \A n \in SourceRows(resp.cards[1]) : n > 1 /\ RowDistance(n) = 0
    /\ \A n \in SourceRows(resp.cards[2]) : RowDistance(n) > 0

\* The single-bracket tokens of a text.
BracketTokens(text) == {text[k] : k \in 1..Len(text)} \cap {"[action]"}

\* C21: a translation that GenerateTranslation returned, and the handler
\* passed on, has every single-bracket token of the input text.
C21_TokensPreserved ==
    (Responded /\ "translation" \in DOMAIN httpResp) =>
        \A tok \in BracketTokens(Decode(req.body).Text) :
            \E k \in 1..Len(httpResp.translation) :
                httpResp.translation[k] = tok

\* The embedding calls that have started and not returned.
Outstanding == {j \in 1..Len(results) : ~results[j].done}

\* C22: while a batch is inserted every embedding call of it has returned;
\* while a batch is embedded or inserted no embedding call was started for an
\* entry of a later batch and the calls that have started are those of the
\* entries i+1..BatchEnd; the number of outstanding calls never exceeds the
\* batch size.
C22_OneBatchInFlight ==
    /\ pc = "insert" => Outstanding = {}
    /\ pc # "embedding" => Outstanding = {}
    /\ pc = "embedding" => tx = <<>> /\ Len(results) = BatchEnd - i
    /\ \A n \in 1..Len(embLog) :
        (pc \in {"ingest", "embedding", "insert"}
            /\ n > (IF pc = "ingest" THEN i ELSE BatchEnd)) =>
                embLog[n] = "none"
    /\ Cardinality(Outstanding) <= batchSize

\* C22 witness: the first batch of two entries has been inserted and both
\* embedding calls of the second batch are outstanding.
C22_Witness ==
    /\ pc = "embedding"
    /\ batchSize = 2
    /\ i = 2
    /\ Cardinality(Outstanding) = 2
    /\ Len(table) > Len(baseTable)

\* The rows of the entries a+1..b whose embedding call succeeded, in the
\* order of the entries.
RowsBetween(a, b) ==
    SubSeq(EmbeddedRows(b), Len(EmbeddedRows(a)) + 1, Len(EmbeddedRows(b)))

\* C23: in whatever order the goroutines of a batch return, slot j holds
\* nothing until its own goroutine has returned and then the outcome of the
\* call for entry i+j, with the embedding of that entry's English text; the
\* batchData built from the slots, and the rows executed in the transaction,
\* are the rows of the batch's embedded entries in the order of the entries.
C23_OwnSlotOwnEntry ==
    /\ pc = "embedding" =>
        \A j \in 1..Len(results) :
            IF results[j].done
            THEN /\ results[j].err <=> embLog[i + j] = "err"
                 /\ ~results[j].err =>
                        results[j].embedding =
                            ModelVector(entries[i + j].EnglishText)
            ELSE results[j] = ZeroItem /\ embLog[i + j] = "none"
    /\ pc = "insert" =>
        /\ CurrentBatchData = RowsBetween(i, BatchEnd)
        /\ tx = SubSeq(CurrentBatchData, 1, Len(tx))

\* C23 witness: the goroutine of the second slot has returned with an
\* embedding before the one of the first, for two entries whose texts have
\* different embeddings.
C23_Witness ==
    /\ pc = "embedding"
    /\ Len(results) = 2
    /\ results[2].done
    /\ ~results[2].err
    /\ ~results[1].done
    /\ ModelVector(entries[i + 1].EnglishText)
            # ModelVector(entries[i + 2].EnglishText)

\* The cards of the JSON files that can be read, in the pack directories of
\* a glob.
ReadableCards(packDirs) ==
    UNION {UNION {{packDirs[p].files[f].cards[c] :
                        c \in 1..Len(packDirs[p].files[f].cards)} :
                    f \in {g \in 1..Len(packDirs[p].files) :
                            packDirs[p].files[g].ok}} :
            p \in {q \in 1..Len(packDirs) : packDirs[q].isDir}}

\* The translated cards of a language.
TransCards(lang) ==
    IF fs.trans[lang].exists THEN ReadableCards(fs.trans[lang].packs) ELSE {}

\* The texts that the translated cards of a language have for a side of a
\* code.
SideTexts(lang, code, isBack) ==
    {extractCardText(c, isBack) : c \in {d \in TransCards(lang) : d.Code = code}}
        \ {Empty}

\* The languages with a non-blank translation of a side of a code.
FoundLangs(code, isBack) ==
    {lang \in Langs : SideTexts(lang, code, isBack) # {}}

\* The canonical sides that are to be emitted, each with its languages.
ExpectedSides ==
    {[CardCode |-> s[1].Code, IsBack |-> s[2],
      langs |-> FoundLangs(s[1].Code, s[2])] :
        s \in {t \in ReadableCards(fs.pack) \X BOOLEAN :
                /\ t[1].Code # ""
                /\ extractCardText(t[1], t[2]) # Empty
                /\ FoundLangs(t[1].Code, t[2]) # {}}}

\* The sides that were emitted, each with the languages of its translations.
EmittedSides ==
    {[CardCode |-> entries[n].CardCode, IsBack |-> entries[n].IsBack,
      langs |-> DOMAIN entries[n].Translations] : n \in 1..Len(entries)}

\* C24: the entries of a run without -limit are those of the canonical
\* sides with a non-blank English text and a non-blank translation of the
\* same code and side in at least one language; the translations of an entry
\* are of exactly the languages that have one, each a text of that side.
C24_EmittedIffTranslated ==
    (pc = "ingest" /\ limitEntries = 0) =>
        /\ EmittedSides = ExpectedSides
        /\ \A n \in 1..Len(entries) :
            \A lang \in DOMAIN entries[n].Translations :
                entries[n].Translations[lang] \in
                    SideTexts(lang, entries[n].CardCode, entries[n].IsBack)

\* C24 witness: a run emitted a back entry and dropped a canonical side that
\* has an English text and no translation.
C24_Witness ==
    /\ pc = "ingest"
    /\ limitEntries = 0
    /\ \E n \in 1..Len(entries) : entries[n].IsBack
    /\ \E t \in ReadableCards(fs.pack) \X BOOLEAN :
        /\ t[1].Code # ""
        /\ extractCardText(t[1], t[2]) # Empty
        /\ FoundLangs(t[1].Code, t[2]) = {}

\* The front text of a card as the claim has it: the text field unless it is
\* blank, else the real_text field.
PreferredFront(card) ==
    IF TrimSpace(card.Text) # Empty THEN TrimSpace(card.Text)
    ELSE TrimSpace(card.RealText)

\* C25: the dictionary of a language has a front text for every translated
\* card whose text or real_text is not blank; the English text of a front
\* entry is the text of its card or, when that is blank, its real_text, and
\* the English text of a back entry is the back_text of its card.
C25_FrontFallback ==
    (pc = "ingest" /\ limitEntries = 0) =>
        /\ \A lang \in Langs : \A c \in TransCards(lang) :
            (c.Code # "" /\ PreferredFront(c) # Empty) =>
                /\ c.Code \in DOMAIN allTranslations[lang]
                /\ "text" \in DOMAIN allTranslations[lang][c.Code]
        /\ \A n \in 1..Len(entries) :
            \E c \in ReadableCards(fs.pack) :
                /\ c.Code = entries[n].CardCode
                /\ entries[n].EnglishText =
                    IF entries[n].IsBack THEN TrimSpace(c.BackText)
                    ELSE PreferredFront(c)

HasCode(card) == card.Code # ""

IsReadable(file) == file.ok

IsDirectory(packDir) == packDir.isDir

\* The files of a directory without those that cannot be read or parsed and
\* without the cards that have no code.
CleanFiles(files) ==
    LET good == SelectSeq(files, IsReadable)
    IN  [k \in 1..Len(good) |-> File(SelectSeq(good[k].cards, HasCode))]

\* The pack directories of a glob without the entries that are no directory.
CleanPacks(packDirs) ==
    LET good == SelectSeq(packDirs, IsDirectory)
    IN  [k \in 1..Len(good) |-> PackDir(CleanFiles(good[k].files))]

\* The data directory as if the bad items were not there.
CleanFS(f) ==
    [pack |-> CleanPacks(f.pack),
     trans |-> [lang \in Langs |->
        IF f.trans[lang].exists
        THEN TransDir(CleanPacks(f.trans[lang].packs)) ELSE NoTransDir]]

\* The data directory has an item to skip among its canonical files.
HasBadItems(f) ==
    /\ \E p \in 1..Len(f.pack) : ~f.pack[p].isDir
    /\ \E p \in 1..Len(f.pack) :
        \E k \in 1..Len(f.pack[p].files) : ~f.pack[p].files[k].ok
    /\ \E c \in ReadableCards(f.pack) : c.Code = ""

\* C26: the load and processCardFiles of a run go through whatever is in
\* the data directory, and the dictionaries and the entries are those of the
\* data directory without its unreadable directories and files and without
\* its cards that have no code; the run stops for want of entries only when
\* that directory yields none.
C26_BadItemsSkipped ==
    /\ pc \in {"process", "ingest"} =>
            allTranslations = LoadAllTranslations(CleanFS(fs).trans)
    /\ (pc = "ingest" /\ limitEntries = 0) => entries = Reconcile(CleanFS(fs))
    /\ fatal = "No cards found to process" => Reconcile(CleanFS(fs)) = <<>>

\* C26 witness: a run on a data directory with an entry that is no
\* directory, an unparsable file and a card without a code, among the
\* canonical files and among the French ones, has emitted entries.
C26_Witness ==
    /\ pc = "ingest"
    /\ limitEntries = 0
    /\ HasBadItems(fs)
    /\ CleanFS(fs).trans["fr"] # fs.trans["fr"]
    /\ entries # <<>>

\* C27: no two entries that processCardFiles emits, and no two rows that a
\* run with -clear leaves, have the same card code and the same side.
C27_UniqueCodeSide ==
    /\ \A n \in 1..Len(entries) : \A m \in 1..Len(entries) :
        (entries[n].CardCode = entries[m].CardCode
            /\ entries[n].IsBack = entries[m].IsBack) => n = m
    /\ (Completed /\ clearDB) =>
        \A n \in 1..Len(table) : \A m \in 1..Len(table) :
            (table[n].card_code = table[m].card_code
                /\ table[n].is_back = table[m].is_back) => n = m

\* The rows that the run has inserted.
RowsOfRun == IF entries = <<>> THEN <<>> ELSE EmbeddedRows(Ingested)

\* The run ended before clearDatabase was called, or in it.
EndedBeforeClear ==
    fatal \in {"OpenAI API key required", "Data directory not found",
               "Failed to connect to database", "Failed to setup database",
               "Failed to clear database"}

\* C28 as stated: after a run with -clear, successful or failed, the table
\* has the rows of that run only; after a run without it the table is the one
\* from before the run followed by the rows of the run.
C28_ClearDecides ==
    RunEnded =>
        IF clearDB THEN table = RowsOfRun
        ELSE table = prev.table \o RowsOfRun

\* C28 amended: a run with -clear that got past clearDatabase has, from then
\* on and after it, the rows of that run only; a run with -clear that ended
\* before clearDatabase or in it leaves the table as it was; a run without
\* -clear has the table from before the run followed by the rows of the run.
C28_ClearOrAppend ==
    /\ (clearDB /\ pc \in {"load", "process", "ingest", "embedding", "insert"})
            => table = RowsOfRun
    /\ RunEnded =>
        IF clearDB /\ ~EndedBeforeClear THEN table = RowsOfRun
        ELSE table = prev.table \o RowsOfRun

\* C28 witness: a second run with -clear on a table with rows of the first
\* has failed in its second batch; the table has the rows of its first batch
\* only.
C28_Witness ==
    /\ RunEnded
    /\ run = 2
    /\ clearDB
    /\ prev.table # <<>>
    /\ InsertFailed
    /\ table # <<>>
    /\ table = RowsOfRun

\* ceil(n / b) for b >= 1.
CeilDiv(n, b) == (n + b - 1) \div b

\* C29: the batches of a run start at the multiples of the batch size and
\* number ceil(n / batchSize) when the run completes; the batch in hand is
\* the entries i+1..min(i + batchSize, n); every entry of a finished batch
\* has had its embedding call, no entry after the batch in hand has had one,
\* and no call is started for an entry that has had one; after a completed
\* run every entry has had its call.
C29_ConsecutiveBatches ==
    (pc \in {"ingest", "embedding", "insert"} \/ (pc = "idle" /\ entries # <<>>)) =>
        /\ i % batchSize = 0
        /\ i <= batchSize * CeilDiv(Len(entries), batchSize)
        /\ pc \in {"embedding", "insert"} =>
            /\ i < Len(entries)
            /\ Len(results) = Min(batchSize, Len(entries) - i)
            /\ \A j \in 1..Len(results) :
                ~results[j].done <=> embLog[i + j] = "none"
        /\ \A n \in 1..Len(entries) :
            /\ n <= i => embLog[n] # "none"
            /\ (n > i + batchSize \/ (pc = "ingest" /\ n > i)) =>
                    embLog[n] = "none"
        /\ Completed =>
            /\ i = batchSize * CeilDiv(Len(entries), batchSize)
            /\ \A n \in 1..Len(entries) : embLog[n] # "none"

\* C29 witness: a run of three entries with batch size two has completed
\* after a batch of two and a batch of one.
C29_Witness ==
    /\ Completed
    /\ batchSize = 2
    /\ Len(entries) = 3
    /\ i = 4
    /\ \A n \in 1..3 : embLog[n] # "none"

\* The run ended in a panic of the Go runtime.
Panicked == fatal \in {DivideByZero, SliceBounds}

\* C30: for every value of -batch-size, zero and the negative ones included,
\* a run ends with completion (status 0) or with an error it reports through
\* log.Fatal (status 1), never in a runtime panic.
C30_CompletionOrReportedError ==
    RunEnded => exit \in {0, 1} /\ ~Panicked

=============================================================================
